---- MODULE Spec2Model ----
(***************************************************************************)
(* Model of rank_filter::lineRankOrderFilter1D (include/rank_filter.hxx): *)
(* a sliding-window rank-order filter over one line of samples, with the  *)
(* window reflected at both ends of the line.                             *)
(*                                                                         *)
(* Positions are 0-based as in the C++ code; TLA+ sequences are 1-based,  *)
(* so element i of a C++ container c is c[i + 1] here.                    *)
(* A set iterator is modelled by the pair it points to (node-based set:   *)
(* iterators stay valid until their own element is erased); END is the    *)
(* past-the-end / singular iterator.                                      *)
(* Undefined behaviour (out-of-range read, dereference or erase of an     *)
(* iterator that is not in the set, moving the cursor off the set) is a   *)
(* nondeterministic choice, and is recorded in the audit variable faults. *)
(***************************************************************************)
EXTENDS Integers, Sequences, FiniteSets, TLC

\* ---------------------------------------------------------------- bounds
\* Longest source line explored.
MaxN == 4
\* Sample values are 0..MaxVal.
MaxVal == 2
\* rank is the rational rank / RankDen (a double in the code).
RankDen == 4
\* size_t arithmetic is modulo 2^SizeBits (64 on the usual targets; narrowed
\* here because TLC's integers are 32-bit, and far above every size explored).
SizeBits == 16

SizeMod == 2 ^ SizeBits
Values == 0..MaxVal
\* Ranks explored: -1/RankDen .. (RankDen + 1)/RankDen, so both sides of [0,1].
Ranks == (-1)..(RankDen + 1)
\* Content of a destination element the filter has not written.
Unset == -1
\* Past-the-end or singular set iterator.
END == <<-1, -1>>

Sources == UNION {[1..n -> Values] : n \in 0..MaxN}
\* Half lengths explored: the small ones, and the largest size_t, for which
\* half_length + 1 wraps around to 0.
HalfLengths == (0..MaxN) \cup {SizeMod - 1}

VARIABLES
    source,             \* [src_begin, src_end)
    dest_cap,           \* std::distance(dest_begin, dest_end)
    half_length,
    rank,               \* numerator of rank over RankDen
    pc,                 \* "entry", "init", "loop", "done", "failed"
    failure,            \* which assert failed, "none" otherwise
    values_seen,
    sorted_window,      \* set of pairs <<value, sequence index>>
    window_iters,       \* deque of set iterators, front first
    src_pos,
    dest_pos,
    destination,        \* [dest_begin, dest_end)
    rank_pos,
    rank_point,         \* set iterator: the rank cursor
    rank_value,
    window_reflect_pos,
    src_not_empty,
    writes,             \* audit: destination positions written, in order
    faults,             \* audit: kinds of undefined behaviour met so far
    step_case,          \* audit: branch of the last roll-forward step
    prev_iter,          \* the iterator popped from the queue in the last step
    prev_value,
    next_value,
    next_pair,
    cursor_before,      \* audit: rank_point when the last step began
    rank_before,        \* audit: rank_value when the last step began
    cursor_at_erase,    \* audit: rank_point when the last step called erase
    n_erase,            \* audit: erase calls of the last step
    n_insert,           \* audit: insert calls of the last step
    step_kind,          \* audit: "source" or "reflect" for the last step
    source_steps,       \* audit: steps that consumed a source sample
    reflect_steps,      \* audit: steps that inserted a reflected sample
    indices             \* audit: every sequence index assigned, in order

vars == <<source, dest_cap, half_length, rank, pc, failure, values_seen,
          sorted_window, window_iters, src_pos, dest_pos, destination,
          rank_pos, rank_point, rank_value, window_reflect_pos,
          src_not_empty, writes, faults, step_case, prev_iter, prev_value,
          next_value, next_pair, cursor_before, rank_before,
          cursor_at_erase, n_erase, n_insert, step_kind, source_steps,
          reflect_steps, indices>>

\* The program state as one record, so that whole runs can be computed.
Cur ==
    [source |-> source, dest_cap |-> dest_cap, half_length |-> half_length,
     rank |-> rank, pc |-> pc, failure |-> failure,
     values_seen |-> values_seen, sorted_window |-> sorted_window,
     window_iters |-> window_iters, src_pos |-> src_pos,
     dest_pos |-> dest_pos, destination |-> destination,
     rank_pos |-> rank_pos, rank_point |-> rank_point,
     rank_value |-> rank_value, window_reflect_pos |-> window_reflect_pos,
     src_not_empty |-> src_not_empty, writes |-> writes, faults |-> faults,
     step_case |-> step_case,
     prev_iter |-> prev_iter,
     prev_value |-> prev_value,
     next_value |-> next_value,
     next_pair |-> next_pair,
     cursor_before |-> cursor_before,
     rank_before |-> rank_before,
     cursor_at_erase |-> cursor_at_erase,
     n_erase |-> n_erase,
     n_insert |-> n_insert,
     step_kind |-> step_kind,
     source_steps |-> source_steps,
     reflect_steps |-> reflect_steps,
     indices |-> indices]

\* The variables hold state t after the step.
Becomes(t) ==
    /\ source' = t.source
    /\ dest_cap' = t.dest_cap
    /\ half_length' = t.half_length
    /\ rank' = t.rank
    /\ pc' = t.pc
    /\ failure' = t.failure
    /\ values_seen' = t.values_seen
    /\ sorted_window' = t.sorted_window
    /\ window_iters' = t.window_iters
    /\ src_pos' = t.src_pos
    /\ dest_pos' = t.dest_pos
    /\ destination' = t.destination
    /\ rank_pos' = t.rank_pos
    /\ rank_point' = t.rank_point
    /\ rank_value' = t.rank_value
    /\ window_reflect_pos' = t.window_reflect_pos
    /\ src_not_empty' = t.src_not_empty
    /\ writes' = t.writes
    /\ faults' = t.faults
    /\ step_case' = t.step_case
    /\ prev_iter' = t.prev_iter
    /\ prev_value' = t.prev_value
    /\ next_value' = t.next_value
    /\ next_pair' = t.next_pair
    /\ cursor_before' = t.cursor_before
    /\ rank_before' = t.rank_before
    /\ cursor_at_erase' = t.cursor_at_erase
    /\ n_erase' = t.n_erase
    /\ n_insert' = t.n_insert
    /\ step_kind' = t.step_kind
    /\ source_steps' = t.source_steps
    /\ reflect_steps' = t.reflect_steps
    /\ indices' = t.indices

\* The variables hold state t now.
Starts(t) ==
    /\ source = t.source
    /\ dest_cap = t.dest_cap
    /\ half_length = t.half_length
    /\ rank = t.rank
    /\ pc = t.pc
    /\ failure = t.failure
    /\ values_seen = t.values_seen
    /\ sorted_window = t.sorted_window
    /\ window_iters = t.window_iters
    /\ src_pos = t.src_pos
    /\ dest_pos = t.dest_pos
    /\ destination = t.destination
    /\ rank_pos = t.rank_pos
    /\ rank_point = t.rank_point
    /\ rank_value = t.rank_value
    /\ window_reflect_pos = t.window_reflect_pos
    /\ src_not_empty = t.src_not_empty
    /\ writes = t.writes
    /\ faults = t.faults
    /\ step_case = t.step_case
    /\ prev_iter = t.prev_iter
    /\ prev_value = t.prev_value
    /\ next_value = t.next_value
    /\ next_pair = t.next_pair
    /\ cursor_before = t.cursor_before
    /\ rank_before = t.rank_before
    /\ cursor_at_erase = t.cursor_at_erase
    /\ n_erase = t.n_erase
    /\ n_insert = t.n_insert
    /\ step_kind = t.step_kind
    /\ source_steps = t.source_steps
    /\ reflect_steps = t.reflect_steps
    /\ indices = t.indices

\* State on entry to the call with the given arguments.
Entry(src, cap, h, r) ==
    [source |-> src, dest_cap |-> cap, half_length |-> h, rank |-> r,
     pc |-> "entry", failure |-> "none", values_seen |-> 0,
     sorted_window |-> {}, window_iters |-> <<>>, src_pos |-> 0,
     dest_pos |-> 0, destination |-> [i \in 1..cap |-> Unset],
     rank_pos |-> 0, rank_point |-> END, rank_value |-> Unset,
     window_reflect_pos |-> 0, src_not_empty |-> FALSE, writes |-> <<>>,
     faults |-> {}, step_case |-> "none", prev_iter |-> END,
     prev_value |-> Unset, next_value |-> Unset, next_pair |-> <<0, 0>>,
     cursor_before |-> END, rank_before |-> Unset, cursor_at_erase |-> END,
     n_erase |-> 0, n_insert |-> 0, step_kind |-> "none",
     source_steps |-> 0, reflect_steps |-> 0, indices |-> <<>>]

\* ------------------------------------------------- containers and iterators
\* Variant: among equal values the larger sequence index comes first.
Less_newerFirst(p, q) == p[1] < q[1] \/ (p[1] = q[1] /\ p[2] > q[2])

\* std::less< std::pair<T, size_t> >: value first, sequence index second.
Less(p, q) == p[1] < q[1] \/ (p[1] = q[1] /\ p[2] < q[2])

\* *it, for an iterator into set S: any value when it is not dereferenceable.
Deref(S, it) == IF it \in S THEN {it[1]} ELSE Values

\* Iterator n steps after S.begin() (std::advance); END is S.end().
Advance(S, n) ==
    IF n < Cardinality(S)
    THEN {CHOOSE p \in S : Cardinality({q \in S : Less(q, p)}) = n}
    ELSE IF n = Cardinality(S) THEN {END} ELSE S \cup {END}

\* ++it
Succ(S, it) ==
    IF it \in S
    THEN LET above == {q \in S : Less(it, q)}
         IN IF above = {} THEN {END}
            ELSE {CHOOSE p \in above : \A q \in above : ~Less(q, p)}
    ELSE S \cup {END}

\* --it
Pred(S, it) ==
    LET below == IF it = END THEN S
                 ELSE IF it \in S THEN {q \in S : Less(q, it)} ELSE {}
    IN IF below = {} THEN S \cup {END}
       ELSE {CHOOSE p \in below : \A q \in below : ~Less(p, q)}

\* Variant: the erase is left out.
Erase_none(S, it) == {S}

\* S.erase(it): the sets that can result.
Erase(S, it) ==
    IF it \in S THEN {S \ {it}} ELSE {S} \cup {S \ {x} : x \in S}

\* *(src_begin + i)
ReadSrc(src, i) == IF i < Len(src) THEN {src[i + 1]} ELSE Values

\* *dest_pos = v with dest_pos at position pos
WriteDest(dest, pos, v) ==
    IF pos < Len(dest) THEN [dest EXCEPT ![pos + 1] = v] ELSE dest

\* ------------------------------------------------------------ preconditions
half_length_add_1(h) == (h + 1) % SizeMod
length_sub_1(h) == (2 * h) % SizeMod
length(h) == (length_sub_1(h) + 1) % SizeMod

\* assert(distance(src) <= distance(dest))
ResultFits(src, cap) == Len(src) <= cap

\* Variant: the window check compares half_length itself with the length.
WindowFits_offByOne(src, h) == h <= Len(src)

\* assert(half_length_add_1 <= distance(src))
WindowFits(src, h) == half_length_add_1(h) <= Len(src)

\* Variant: the rank check has no upper limit.
RankInRange_noUpper(r) == 0 <= r

\* assert((0 <= rank) && (rank <= 1))
RankInRange(r) == (0 <= r) /\ (r <= RankDen)

\* Line 62: std::deque<...> window_iters(length) throws std::length_error
\* when length exceeds max_size(), which is at most PTRDIFF_MAX.
DequeMaxSize == (SizeMod \div 2) - 1

\* Lines 46-66: the three asserts in order, then the locals.
CheckPreconditions(st) ==
    IF ~ResultFits(st.source, st.dest_cap)
    THEN [st EXCEPT !.pc = "failed", !.failure = "DestinationTooSmall"]
    ELSE IF ~WindowFits(st.source, st.half_length)
    THEN [st EXCEPT !.pc = "failed", !.failure = "WindowTooLarge"]
    ELSE IF ~RankInRange(st.rank)
    THEN [st EXCEPT !.pc = "failed", !.failure = "RankOutOfRange"]
    ELSE IF length(st.half_length) > DequeMaxSize
    THEN [st EXCEPT !.pc = "failed", !.failure = "LengthError"]
    ELSE [st EXCEPT !.pc = "init",
                    !.values_seen = 0,
                    !.sorted_window = {},
                    !.window_iters = [j \in 1..length(st.half_length) |-> END],
                    !.src_pos = 0,
                    !.dest_pos = 0]

\* ------------------------------------------------------ initial window
\* Variant: window_init is filled front to back.
InitSlotSource_forward(h, j) == j

\* Lines 74-78: window_init[half_length] = src[0], then window_init[--j] =
\* *(++src_pos): the source index whose value lands in window_init[j].
InitSlotSource(h, j) == h - j

\* Lines 72-79: the possible contents of window_init (indexed from 0).
WindowInit(src, h) ==
    IF h < Len(src)
    THEN {[j \in 0..h |-> src[InitSlotSource(h, j) + 1]]}
    ELSE {w \in [0..h -> Values] :
            \A j \in 0..h : w[j] \in ReadSrc(src, InitSlotSource(h, j))}

\* Variant: the second loop takes window_init from the front.
QueueInitSlot_front(h, j) == IF j < h THEN j ELSE j - h

\* Lines 82-94: the slot of window_init that supplies window_iters[j]: the
\* first loop reads slot j, the second takes back() and pops it.
QueueInitSlot(h, j) == IF j < h THEN j ELSE (2 * h) - j

\* Variant: the rank is scaled by length instead of length - 1.
RoundRank_length(r, m) ==
    ((2 * r * (m + 1) + RankDen) \div (2 * RankDen)) % SizeMod

\* Line 98: boost::math::round(rank * length_sub_1), half away from zero,
\* cast to size_t.
RoundRank(r, m) ==
    IF r >= 0
    THEN ((2 * r * m + RankDen) \div (2 * RankDen)) % SizeMod
    ELSE (0 - ((2 * (0 - r) * m + RankDen) \div (2 * RankDen))) % SizeMod

\* Lines 71-110: build the reflected initial window, seat the cursor, write
\* the first output.
InitWindow(st) ==
    LET h == st.half_length
        n == length(h)
        rp == RoundRank(st.rank, length_sub_1(h))
    IN UNION {
         LET iters == [j \in 1..n |-> <<w[QueueInitSlot(h, j - 1)], j - 1>>]
             S == {iters[j] : j \in 1..n}
         IN UNION {
              {[st EXCEPT
                  !.pc = "loop",
                  !.values_seen = n,
                  !.sorted_window = S,
                  !.window_iters = iters,
                  !.src_pos = h + 1,
                  !.rank_pos = rp,
                  !.rank_point = pt,
                  !.rank_value = rv,
                  !.destination = WriteDest(st.destination, st.dest_pos, rv),
                  !.writes = Append(st.writes, st.dest_pos),
                  !.window_reflect_pos = length_sub_1(h),
                  !.src_not_empty = ((h + 1) # Len(st.source)),
                  !.indices = [j \in 1..n |-> iters[j][2]],
                  !.faults = st.faults
                      \cup (IF h < Len(st.source) THEN {} ELSE {"src_read"})
                      \cup (IF pt \in S /\ rp < n THEN {} ELSE {"cursor_move"})
                      \cup (IF st.dest_pos < st.dest_cap THEN {}
                            ELSE {"dest_write"})]
               : rv \in Deref(S, pt)}
            : pt \in Advance(S, rp)}
       : w \in WindowInit(st.source, h)}

\* ------------------------------------------------------ roll-forward step
\* Variant: the loop stops as soon as the source is exhausted.
LoopCond_noTail(st) == st.src_not_empty

\* Line 111: the loop guard.
LoopCond(st) == st.src_not_empty \/ (st.window_reflect_pos > 0)

\* Variant: the reflection position goes back three places per step.
ReflectPos_three(wrp) == (wrp - 3) % SizeMod

\* Variant: the reflection position goes back one place per step.
ReflectPos_one(wrp) == (wrp - 1) % SizeMod

\* Line 128: window_reflect_pos -= 2 (size_t).
ReflectPos(wrp) == (wrp - 2) % SizeMod

\* Variant: the first branch tests rank_value < next_value.
UpdateCase_gap(rv, pv, nv) ==
    IF (rv < pv) /\ (rv < nv) THEN "a"
    ELSE IF (rv >= pv) /\ (rv > nv) THEN "b"
    ELSE IF (rv < pv) /\ (rv > nv) THEN "c"
    ELSE IF (rv >= pv) /\ (rv <= nv) THEN "d"
    ELSE "none"

\* Variant: the comparisons with next_value have their strictness exchanged.
UpdateCase_strict(rv, pv, nv) ==
    IF (rv < pv) /\ (rv < nv) THEN "a"
    ELSE IF (rv >= pv) /\ (rv >= nv) THEN "b"
    ELSE IF (rv < pv) /\ (rv >= nv) THEN "c"
    ELSE IF (rv >= pv) /\ (rv < nv) THEN "d"
    ELSE "none"

\* Lines 137, 142, 156, 162: which branch of the if / else-if chain is taken.
UpdateCase(rv, pv, nv) ==
    IF (rv < pv) /\ (rv <= nv) THEN "a"
    ELSE IF (rv >= pv) /\ (rv > nv) THEN "b"
    ELSE IF (rv < pv) /\ (rv > nv) THEN "c"
    ELSE IF (rv >= pv) /\ (rv <= nv) THEN "d"
    ELSE "none"

\* Variant: the cursor is never recognised as the departing sample.
CursorIsDeparting_never(pt, departing) == FALSE

\* Lines 144, 164: rank_point == prev_iter.
CursorIsDeparting(pt, departing) == pt = departing

\* Variant: the increment and the decrement of the cursor are exchanged.
Move_reversed(S, pt, dir) ==
    IF dir = 0 THEN {pt} ELSE IF dir < 0 THEN Succ(S, pt) ELSE Pred(S, pt)

\* Variant: a forward move of the cursor is dropped.
Move_noForward(S, pt, dir) == IF dir < 0 THEN Pred(S, pt) ELSE {pt}

\* Moving the cursor by dir (-1: --rank_point, +1: ++rank_point, 0: stay).
Move(S, pt, dir) ==
    IF dir = 0 THEN {pt} ELSE IF dir < 0 THEN Pred(S, pt) ELSE Succ(S, pt)

\* The move stays on the samples of S.
MoveOK(S, pt, dir) ==
    \/ dir = 0
    \/ /\ pt \in S
       /\ dir < 0 => \E q \in S : Less(q, pt)
       /\ dir > 0 => \E q \in S : Less(pt, q)

\* Variant: the cursor is moved before the new pair is inserted.
EraseInsertMove_early(S, departing, np, pt, dir, name) ==
    UNION {
      {[sw |-> S1 \cup {np}, pt |-> p2, pushed |-> <<np>>, case |-> name,
        at_erase |-> pt, erases |-> 1, inserts |-> 1,
        faults |-> (IF departing \in S THEN {} ELSE {"erase"})
              \cup (IF np \in S1 THEN {"insert_dup"} ELSE {})
              \cup (IF MoveOK(S1, pt, dir) THEN {} ELSE {"cursor_move"})]
       : p2 \in Move(S1, pt, dir)}
      : S1 \in Erase(S, departing)}

\* Lines 139-140, 152-153, 158-160, 172-174: erase prev_iter, insert
\* next_pair, then move the cursor.
EraseInsertMove(S, departing, np, pt, dir, name) ==
    UNION {
      LET S2 == S1 \cup {np}
      IN {[sw |-> S2, pt |-> p2, pushed |-> <<np>>, case |-> name,
           at_erase |-> pt, erases |-> 1, inserts |-> 1,
           faults |-> (IF departing \in S THEN {} ELSE {"erase"})
                 \cup (IF np \in S1 THEN {"insert_dup"} ELSE {})
                 \cup (IF MoveOK(S2, pt, dir) THEN {} ELSE {"cursor_move"})]
          : p2 \in Move(S2, pt, dir)}
      : S1 \in Erase(S, departing)}

\* Variant: the departing sample is erased before the cursor is moved.
InsertMoveErase_eraseFirst(S, departing, np, pt, dir, name) ==
    LET S1 == S \cup {np}
    IN UNION {
         {[sw |-> S2, pt |-> p2, pushed |-> <<np>>, case |-> name,
           at_erase |-> pt, erases |-> 1, inserts |-> 1,
           faults |-> (IF departing \in S1 THEN {} ELSE {"erase"})
                 \cup (IF np \in S THEN {"insert_dup"} ELSE {})
                 \cup (IF MoveOK(S2, pt, dir) THEN {} ELSE {"cursor_move"})]
          : p2 \in Move(S2, pt, dir)}
         : S2 \in Erase(S1, departing)}

\* Lines 146-148, 166-168: insert next_pair, move the cursor off the
\* departing sample, then erase prev_iter.
InsertMoveErase(S, departing, np, pt, dir, name) ==
    LET S1 == S \cup {np}
    IN UNION {
         {[sw |-> S2, pt |-> p2, pushed |-> <<np>>, case |-> name,
           at_erase |-> p2, erases |-> 1, inserts |-> 1,
           faults |-> (IF departing \in S1 THEN {} ELSE {"erase"})
                 \cup (IF np \in S THEN {"insert_dup"} ELSE {})
                 \cup (IF MoveOK(S1, pt, dir) THEN {} ELSE {"cursor_move"})]
          : S2 \in Erase(S1, departing)}
         : p2 \in Move(S1, pt, dir)}

\* Lines 137-176: remove the old value, add the new one, adjust the cursor.
UpdateWindow(S, pt, rv, departing, pv, np) ==
    LET c == UpdateCase(rv, pv, np[1])
    IN IF c = "a"
       THEN EraseInsertMove(S, departing, np, pt, 0, "a")
       ELSE IF c = "b"
       THEN IF CursorIsDeparting(pt, departing)
            THEN InsertMoveErase(S, departing, np, pt, -1, "b_cursor")
            ELSE EraseInsertMove(S, departing, np, pt, 0, "b")
       ELSE IF c = "c"
       THEN EraseInsertMove(S, departing, np, pt, -1, "c")
       ELSE IF c = "d"
       THEN IF CursorIsDeparting(pt, departing)
            THEN InsertMoveErase(S, departing, np, pt, 1, "d_cursor")
            ELSE EraseInsertMove(S, departing, np, pt, 1, "d")
       ELSE {[sw |-> S, pt |-> pt, pushed |-> <<>>, case |-> "none",
              at_erase |-> END, erases |-> 0, inserts |-> 0,
              faults |-> {}]}

\* Variant: the counter is not advanced.
NextSeen_stuck(vs) == vs

\* Line 132: ++values_seen (size_t).
NextSeen(vs) == (vs + 1) % SizeMod

\* Variant: the new iterators go to the front of the queue.
PushBack_front(q, items) == items \o q

\* Lines 140, 146, 153, 159, 166, 173: window_iters.push_back of the
\* iterators the step inserted.
PushBack(q, items) == q \o items

\* Lines 113-179: one pass of the loop body.
RollForward(st) ==
    LET S == st.sorted_window
        nonempty == st.window_iters # <<>>
        departing == IF nonempty THEN Head(st.window_iters) ELSE END
        q == IF nonempty THEN Tail(st.window_iters) ELSE <<>>
        wrp == IF st.src_not_empty THEN st.window_reflect_pos
               ELSE ReflectPos(st.window_reflect_pos)
        nexts == IF st.src_not_empty THEN ReadSrc(st.source, st.src_pos)
                 ELSE IF wrp < Len(q) THEN Deref(S, q[wrp + 1]) ELSE Values
        pos == IF st.src_not_empty THEN st.src_pos + 1 ELSE st.src_pos
        more == IF st.src_not_empty THEN pos # Len(st.source) ELSE FALSE
        seen == NextSeen(st.values_seen)
        dpos == st.dest_pos + 1
        f == (IF nonempty THEN {} ELSE {"queue_empty"})
             \cup (IF departing \in S THEN {} ELSE {"deref"})
             \cup (IF st.src_not_empty /\ ~(st.src_pos < Len(st.source))
                   THEN {"src_read"} ELSE {})
             \cup (IF ~st.src_not_empty /\ ~(wrp < Len(q))
                   THEN {"queue_index"} ELSE {})
             \cup (IF ~st.src_not_empty /\ wrp < Len(q) /\ q[wrp + 1] \notin S
                   THEN {"deref"} ELSE {})
             \cup (IF dpos < st.dest_cap THEN {} ELSE {"dest_write"})
    IN UNION { UNION { UNION {
         {[st EXCEPT
             !.values_seen = seen,
             !.sorted_window = u.sw,
             !.window_iters = PushBack(q, u.pushed),
             !.src_pos = pos,
             !.src_not_empty = more,
             !.window_reflect_pos = wrp,
             !.rank_point = u.pt,
             !.rank_value = rv,
             !.dest_pos = dpos,
             !.destination = WriteDest(st.destination, dpos, rv),
             !.writes = Append(st.writes, dpos),
             !.faults = st.faults \cup f \cup u.faults
                        \cup (IF u.pt \in u.sw THEN {} ELSE {"deref"}),
             !.step_case = u.case,
             !.prev_iter = departing,
             !.prev_value = pv,
             !.next_value = nv,
             !.next_pair = <<nv, seen>>,
             !.cursor_before = st.rank_point,
             !.rank_before = st.rank_value,
             !.cursor_at_erase = u.at_erase,
             !.n_erase = u.erases,
             !.n_insert = u.inserts,
             !.step_kind = IF st.src_not_empty THEN "source" ELSE "reflect",
             !.source_steps = IF st.src_not_empty THEN st.source_steps + 1
                              ELSE st.source_steps,
             !.reflect_steps = IF st.src_not_empty THEN st.reflect_steps
                               ELSE st.reflect_steps + 1,
             !.indices = Append(st.indices, seen)]
          : rv \in Deref(u.sw, u.pt)}
         : u \in UpdateWindow(S, st.rank_point, st.rank_value, departing,
                              pv, <<nv, seen>>)}
         : nv \in nexts}
         : pv \in Deref(S, departing)}

\* Line 111 with the guard false, line 181: the call returns.
Return(st) == [st EXCEPT !.pc = "done"]

\* ------------------------------------------------------------ whole runs
\* The states one step of the call can lead to.
NextStates(st) ==
    IF st.pc = "entry" THEN {CheckPreconditions(st)}
    ELSE IF st.pc = "init" THEN InitWindow(st)
    ELSE IF st.pc = "loop"
    THEN IF LoopCond(st) THEN RollForward(st) ELSE {Return(st)}
    ELSE {}

RECURSIVE FinalStates(_)
\* The states in which the call can end when continued from st.
FinalStates(st) ==
    IF st.pc \in {"done", "failed"} THEN {st}
    ELSE UNION {FinalStates(t) : t \in NextStates(st)}

\* What lineRankOrderFilter1D(src, dest, h, r / RankDen) can leave in the
\* first Len(src) elements of a destination of capacity cap.
Filter(src, cap, h, r) ==
    {SubSeq(t.destination, 1, Len(src)) :
        t \in {u \in FinalStates(Entry(src, cap, h, r)) : u.pc = "done"}}

\* ------------------------------------------------------------ the machine
Init ==
    \E src \in Sources, h \in HalfLengths, r \in Ranks :
      \E cap \in {c \in {Len(src) - 1, Len(src), Len(src) + 1} : c >= 0} :
        Starts(Entry(src, cap, h, r))

Check ==
    /\ pc = "entry"
    /\ Becomes(CheckPreconditions(Cur))

Initialize ==
    /\ pc = "init"
    /\ \E t \in InitWindow(Cur) : Becomes(t)

Step ==
    /\ pc = "loop"
    /\ LoopCond(Cur)
    /\ \E t \in RollForward(Cur) : Becomes(t)

Finish ==
    /\ pc = "loop"
    /\ ~LoopCond(Cur)
    /\ Becomes(Return(Cur))

Next == Check \/ Initialize \/ Step \/ Finish

Spec == Init /\ [][Next]_vars

\* The calls whose arguments satisfy the three preconditions, with a
\* destination of the source's length.
ValidInit ==
    \E src \in Sources, h \in 0..MaxN, r \in 0..RankDen :
      /\ h + 1 <= Len(src)
      /\ Starts(Entry(src, Len(src), h, r))

\* Valid calls only; the call is sequential code, so a step that can be
\* taken is taken.
FairSpec == ValidInit /\ [][Next]_vars /\ WF_vars(Next)

\* ------------------------------------------------------------ reference
\* Mirror of position i about the ends 0 and n - 1 of a line of n samples.
Refl(i, n) == IF i < 0 THEN 0 - i ELSE IF i > n - 1 THEN 2 * (n - 1) - i ELSE i

\* The 2h + 1 values of the reflected window centred at position p.
WindowAt(src, h, p) ==
    [k \in 1..(2 * h + 1) |-> src[Refl(p + k - 1 - h, Len(src)) + 1]]

\* The k-th smallest (0-indexed) of the values of w, as a sort would give it.
KthSmallest(w, k) ==
    CHOOSE v \in {w[i] : i \in DOMAIN w} :
        /\ Cardinality({i \in DOMAIN w : w[i] < v}) <= k
        /\ k < Cardinality({i \in DOMAIN w : w[i] <= v})

\* round(r / RankDen * m) for 0 <= r / RankDen <= 1, half away from zero.
NearestRank(r, m) ==
    CHOOSE k \in 0..m :
        /\ 2 * k * RankDen - RankDen <= 2 * r * m
        /\ 2 * r * m < 2 * k * RankDen + RankDen

\* Number of leading destination positions that hold an output.
Emitted == IF Len(writes) < Len(source) THEN Len(writes) ELSE Len(source)

Started == pc \in {"loop", "done"}

TooLarge == half_length + 1 > Len(source)
TooSmall == dest_cap < Len(source)
OutOfRange == rank < 0 \/ rank > RankDen

\* -------------------------------------------------------------- claims
\* C1: every output written, destination[p], is the rank_pos-th smallest
\* value (rank_pos = rank * 2h rounded half away from zero) of the reflected
\* window of 2h + 1 source values centred at p, found by sorting that window;
\* when the call returns this covers every p in 0..N-1.
C1_OrderStatistic ==
    Started =>
      /\ Len(destination) >= Emitted
      /\ \A p \in 0..(Emitted - 1) :
            destination[p + 1] =
              KthSmallest(WindowAt(source, half_length, p),
                          NearestRank(rank, 2 * half_length))
      /\ pc = "done" => Emitted = Len(source) /\ Len(writes) = Len(source)

C1_Witness ==
    /\ pc = "done"
    /\ half_length = 1
    /\ 2 * rank = RankDen
    /\ source = <<1, 0, 2, 0>>
    /\ SubSeq(destination, 1, 4) = <<0, 1, 0, 2>>

\* C2: the filter writes destination positions 0, 1, 2, ... in increasing
\* order, each once, never a position at or beyond N, and exactly the N
\* positions 0..N-1 by the time it returns.
C2_WritesExactlyN ==
    /\ \A i \in 1..Len(writes) : writes[i] = i - 1
    /\ Len(writes) <= Len(source)
    /\ \A i \in 1..Len(destination) :
          (destination[i] # Unset) <=> (i <= Len(writes))
    /\ pc = "done" => Len(writes) = Len(source)

C2_Witness ==
    /\ pc = "done"
    /\ Len(source) = MaxN
    /\ dest_cap = MaxN + 1
    /\ half_length = 1
    /\ writes = [i \in 1..MaxN |-> i - 1]
    /\ destination[MaxN + 1] = Unset

\* C3: a call that violates a precondition (half_length + 1 > N, destination
\* shorter than the source, rank outside [0,1]) never gets past the checks:
\* its next step ends it in a failure naming a violated precondition (for
\* the one half_length whose successor wraps to 0, the length error of the
\* queue's construction), with no destination element written and nothing
\* put in the window or queue.
C3_FailsBeforeMutation ==
    /\ []( /\ (TooLarge \/ TooSmall \/ OutOfRange) => pc \in {"entry", "failed"}
           /\ (pc = "failed") =>
                /\ TooLarge \/ TooSmall \/ OutOfRange
                /\ failure = "WindowTooLarge" => TooLarge
                /\ failure = "DestinationTooSmall" => TooSmall
                /\ failure = "RankOutOfRange" => OutOfRange
                /\ failure = "LengthError" => TooLarge
                /\ failure # "none"
                /\ writes = <<>>
                /\ \A i \in 1..Len(destination) : destination[i] = Unset
                /\ sorted_window = {}
                /\ window_iters = <<>>
                /\ values_seen = 0 )
    /\ [][ (pc = "entry" /\ (TooLarge \/ TooSmall \/ OutOfRange))
             => (pc' = "failed") ]_vars

C3_Witness ==
    /\ pc = "failed"
    /\ failure = "RankOutOfRange"
    /\ rank > RankDen
    /\ Len(source) = MaxN
    /\ half_length = MaxN - 1

\* C4: once the preconditions have passed, no operation of the run is
\* undefined: no source read outside 0..N-1, no queue access outside its
\* size, no erase or dereference of an iterator that is not in the window,
\* no insert of a pair already there, no cursor move off the samples; the
\* cursor and every queued iterator stay in the window.
C4_NoFailureMidRun ==
    (pc \in {"init", "loop", "done"}) =>
      /\ faults = {}
      /\ src_pos <= Len(source)
      /\ Started => /\ rank_point \in sorted_window
                    /\ \A i \in 1..Len(window_iters) :
                          window_iters[i] \in sorted_window

C4_Witness ==
    /\ pc = "done"
    /\ faults = {}
    /\ half_length = 1
    /\ Len(source) = MaxN
    /\ step_case = "d_cursor"

\* C5: with rank = 0 every output is the minimum of its reflected window,
\* with rank = 1 the maximum.
C5_MinMax ==
    Started =>
      \A p \in 0..(Emitted - 1) :
        LET w == WindowAt(source, half_length, p)
        IN /\ rank = 0 =>
                /\ \A k \in DOMAIN w : destination[p + 1] <= w[k]
                /\ \E k \in DOMAIN w : destination[p + 1] = w[k]
           /\ rank = RankDen =>
                /\ \A k \in DOMAIN w : destination[p + 1] >= w[k]
                /\ \E k \in DOMAIN w : destination[p + 1] = w[k]

C5_Witness ==
    /\ pc = "done"
    /\ rank = RankDen
    /\ half_length = 1
    /\ source = <<0, 2, 1, 0>>
    /\ SubSeq(destination, 1, 4) = <<2, 2, 2, 1>>

\* C6: with half_length = 0 the output is the input, whatever the rank.
C6_IdentityAtZero ==
    (Started /\ half_length = 0) =>
      /\ \A p \in 0..(Emitted - 1) : destination[p + 1] = source[p + 1]
      /\ pc = "done" => SubSeq(destination, 1, Len(source)) = source

C6_Witness ==
    /\ pc = "done"
    /\ half_length = 0
    /\ rank = 1
    /\ source = <<2, 0, 1, 1>>
    /\ SubSeq(destination, 1, 4) = source
    /\ step_case = "d_cursor"

\* The sequence s back to front.
Reverse(s) == [i \in 1..Len(s) |-> s[Len(s) + 1 - i]]

\* C7: filtering the reversed source and reversing what comes out gives
\* exactly the output of filtering the source itself.
C7_ReflectionSymmetry ==
    (pc = "done") =>
      Filter(Reverse(source), dest_cap, half_length, rank)
        = {Reverse(SubSeq(destination, 1, Len(source)))}

C7_Witness ==
    /\ pc = "done"
    /\ half_length = 2
    /\ rank = 1
    /\ source = <<0, 1, 2, 2>>
    /\ Reverse(source) # source
    /\ Filter(Reverse(source), dest_cap, half_length, rank)
         = {Reverse(SubSeq(destination, 1, Len(source)))}

\* C8: for the same source and half_length, the output for any rank r2 in
\* [0,1] at or above the rank of this run is, position by position, at
\* least the output of this run.
C8_MonotonicRank ==
    (pc = "done") =>
      \A r2 \in rank..RankDen :
        LET outs == Filter(source, dest_cap, half_length, r2)
        IN /\ outs # {}
           /\ \A out \in outs :
                /\ Len(out) = Len(source)
                /\ \A p \in 1..Len(source) : destination[p] <= out[p]

C8_Witness ==
    /\ pc = "done"
    /\ rank = 1
    /\ half_length = 1
    /\ source = <<1, 0, 2, 1>>
    /\ \E out \in Filter(source, dest_cap, half_length, RankDen - 1) :
          \E p \in 1..Len(source) : destination[p] < out[p]

\* C9: a source whose elements all equal one value c is filtered to c at
\* every position, for every valid half_length and rank.
C9_ConstantSource ==
    (Started /\ \A i \in 1..Len(source) : source[i] = source[1]) =>
      /\ \A p \in 0..(Emitted - 1) : destination[p + 1] = source[1]
      /\ rank_value = source[1]
      /\ pc = "done" => Emitted = Len(source)

C9_Witness ==
    /\ pc = "done"
    /\ source = [i \in 1..MaxN |-> 1]
    /\ half_length = MaxN - 1
    /\ 0 < rank /\ rank < RankDen
    /\ SubSeq(destination, 1, MaxN) = source

\* C10: after initialization and after every roll-forward step, the cursor
\* is a sample of the window and exactly rank_pos samples of the window are
\* strictly below it in (value, sequence index) order, where rank_pos is the
\* nearest integer to rank * (length - 1), set once and never changed.
C10_RankCursor ==
    Started =>
      /\ rank_point \in sorted_window
      /\ Cardinality({q \in sorted_window :
             \/ q[1] < rank_point[1]
             \/ (q[1] = rank_point[1] /\ q[2] < rank_point[2])}) = rank_pos
      /\ rank_pos = NearestRank(rank, 2 * half_length)
      /\ rank_value = rank_point[1]

C10_Witness ==
    /\ pc = "loop"
    /\ half_length = 1
    /\ 2 * rank = RankDen
    /\ rank_pos = 1
    /\ step_case = "c"
    /\ Len(writes) = MaxN - 1
    /\ window_reflect_pos = 2

\* The window length 2 * half_length + 1.
WindowLength == 2 * half_length + 1

\* A roll-forward step has completed.
Stepped == Started /\ step_kind # "none"

\* C11: after initialization and after every roll-forward step the ordered
\* window holds exactly 2 * half_length + 1 samples and the queue exactly as
\* many iterators; a step takes exactly one sample out of the window and
\* puts exactly one new sample in.
C11_SizeInvariant ==
    /\ [](Started => /\ Cardinality(sorted_window) = WindowLength
                     /\ Len(window_iters) = WindowLength)
    /\ [][ (pc = "loop" /\ pc' = "loop") =>
             /\ Cardinality(sorted_window \ sorted_window') = 1
             /\ Cardinality(sorted_window' \ sorted_window) = 1
             /\ Len(window_iters') = Len(window_iters) ]_vars

C11_Witness ==
    /\ pc = "loop"
    /\ half_length = 1
    /\ Len(source) = MaxN
    /\ step_kind = "reflect"
    /\ Cardinality(sorted_window) = 3
    /\ Len(window_iters) = 3
    /\ prev_iter \notin sorted_window
    /\ next_pair \in sorted_window

\* C12: in every roll-forward step the cursor is not the iterator being
\* erased when erase is called: in cases (a) and (c) the cursor is not the
\* departing sample at all, and when the cursor is the departing sample
\* (cases (b) and (d)) it has already been moved to another sample of the
\* window, the one it ends the step on.
C12_CursorNotErased ==
    Stepped =>
      /\ n_erase = 1
      /\ cursor_at_erase # prev_iter
      /\ step_case \in {"a", "c"} =>
            /\ rank_before < prev_value
            /\ cursor_before # prev_iter
      /\ step_case \in {"b", "d"} => cursor_before # prev_iter
      /\ step_case \in {"b_cursor", "d_cursor"} =>
            /\ cursor_before = prev_iter
            /\ cursor_at_erase = rank_point
            /\ rank_point \in sorted_window

C12_Witness ==
    /\ Stepped
    /\ step_case = "b_cursor"
    /\ half_length = 1
    /\ cursor_before = prev_iter
    /\ cursor_at_erase # prev_iter
    /\ cursor_at_erase = next_pair

\* The update cases whose condition, as the claim states it, holds of the
\* cursor value rv, the departing value pv and the incoming value nv.
CasesThatApply(rv, pv, nv) ==
    {c \in {"a", "b", "c", "d"} :
        \/ c = "a" /\ rv < pv /\ rv <= nv
        \/ c = "b" /\ rv >= pv /\ rv > nv
        \/ c = "c" /\ rv < pv /\ rv > nv
        \/ c = "d" /\ rv >= pv /\ rv <= nv}

\* C13: for every triple of values exactly one of the four conditions
\* holds and it is the branch the code takes; so every roll-forward step
\* takes exactly one of the four branches, the one whose condition holds of
\* (rank_value, prev_value, next_value), and calls erase once and insert once.
C13_ExactlyOneCase ==
    /\ \A rv \in Values, pv \in Values, nv \in Values :
          CasesThatApply(rv, pv, nv) = {UpdateCase(rv, pv, nv)}
    /\ Stepped =>
          /\ Cardinality(CasesThatApply(rank_before, prev_value, next_value)) = 1
          /\ step_case \in {"a", "b", "b_cursor", "c", "d", "d_cursor"}
          /\ step_case = "a" => "a" \in CasesThatApply(rank_before, prev_value, next_value)
          /\ step_case \in {"b", "b_cursor"} =>
                "b" \in CasesThatApply(rank_before, prev_value, next_value)
          /\ step_case = "c" => "c" \in CasesThatApply(rank_before, prev_value, next_value)
          /\ step_case \in {"d", "d_cursor"} =>
                "d" \in CasesThatApply(rank_before, prev_value, next_value)
          /\ n_erase = 1
          /\ n_insert = 1
          /\ prev_iter \notin sorted_window
          /\ next_pair \in sorted_window

C13_Witness ==
    /\ Stepped
    /\ step_case = "c"
    /\ rank_before < prev_value
    /\ rank_before > next_value
    /\ n_erase = 1
    /\ n_insert = 1

\* p is before q in (value, sequence index) order.
Before(p, q) == p[1] < q[1] \/ (p[1] = q[1] /\ p[2] < q[2])

\* The samples of the window that holds the incoming sample, together with
\* the sample the cursor was on when the step began.
WindowWithFormerCursor == sorted_window \cup {cursor_before}

\* C14: after a step in case (a), or in case (b) with the cursor not the
\* departing sample, the cursor is on the sample it was on; after case (b)
\* with the cursor departing and after case (c) it is on the sample just
\* before its former sample in the window that holds the incoming sample;
\* after case (d) it is on the sample just after its former sample there.
C14_CursorMovement ==
    Stepped =>
      LET W == WindowWithFormerCursor
          below == {q \in W : Before(q, cursor_before)}
          above == {q \in W : Before(cursor_before, q)}
      IN /\ step_case \in {"a", "b"} => rank_point = cursor_before
         /\ step_case \in {"b_cursor", "c"} =>
               /\ rank_point \in below
               /\ \A q \in below : q = rank_point \/ Before(q, rank_point)
         /\ step_case \in {"d", "d_cursor"} =>
               /\ rank_point \in above
               /\ \A q \in above : q = rank_point \/ Before(rank_point, q)
         /\ rank_point \in sorted_window

C14_Witness ==
    /\ Stepped
    /\ step_case = "d"
    /\ half_length = 2
    /\ Before(cursor_before, rank_point)
    /\ cursor_before \in sorted_window
    /\ Cardinality({q \in sorted_window :
                      Before(cursor_before, q) /\ Before(q, rank_point)}) = 0
    /\ rank_point # next_pair

\* C15: after initialization and after every step the queue holds one
\* iterator for each sample of the window and no other (so they are pairwise
\* distinct and none is erased), front to back in the order the samples
\* entered: they are the most recently entered samples, oldest first, and
\* the sample a step erased is the one that entered just before them.
C15_QueueIsWindowInEntryOrder ==
    Started =>
      LET n == Len(window_iters)
          m == Len(indices)
      IN /\ {window_iters[i] : i \in 1..n} = sorted_window
         /\ n = Cardinality(sorted_window)
         /\ n <= m
         /\ \A i \in 1..n : window_iters[i][2] = indices[m - n + i]
         /\ Stepped => /\ m > n
                       /\ prev_iter[2] = indices[m - n]
                       /\ prev_iter \notin sorted_window

C15_Witness ==
    /\ pc = "done"
    /\ half_length = 1
    /\ Len(source) = MaxN
    /\ Len(indices) = MaxN + 2
    /\ window_iters[3] = next_pair
    /\ {window_iters[i] : i \in 1..3} = sorted_window

\* C16: the sequence indices assigned, in the order of assignment, strictly
\* increase, so none is reused; no two samples of the window share an index,
\* and of two samples of equal value the one that entered earlier is ordered
\* first by the window's comparison.
C16_IndicesIncrease ==
    /\ \A i \in 1..Len(indices) : \A j \in 1..Len(indices) :
          i < j => indices[i] < indices[j]
    /\ \A p \in sorted_window : \A q \in sorted_window :
          p # q => p[2] # q[2]
    /\ Started =>
          /\ \A p \in sorted_window : \E i \in 1..Len(indices) : indices[i] = p[2]
          /\ indices[Len(indices)] = values_seen \/ ~Stepped
          /\ \A i \in 1..Len(window_iters) : \A j \in 1..Len(window_iters) :
                (i < j /\ window_iters[i][1] = window_iters[j][1])
                   => Less(window_iters[i], window_iters[j])

C16_Witness ==
    /\ pc = "done"
    /\ half_length = 1
    /\ source = <<1, 1, 1, 1>>
    /\ indices = <<0, 1, 2, 4, 5, 6>>
    /\ sorted_window = {<<1, 4>>, <<1, 5>>, <<1, 6>>}

\* The values the queued iterators point to, front to back.
QueueValues == [i \in 1..Len(window_iters) |-> window_iters[i][1]]

\* C17: when initialization completes, the queue read front to back holds
\* source[h], source[h-1], ..., source[1], then source[0], source[1], ...,
\* source[h], and destination[0] is the value at ordinal position rank_pos
\* of these 2h + 1 values.
C17_InitialWindow ==
    (pc = "loop" /\ step_kind = "none") =>
      LET h == half_length
          expected == [i \in 1..(2 * h + 1) |->
                         IF i <= h THEN source[(h - i + 1) + 1]
                         ELSE source[(i - h - 1) + 1]]
      IN /\ QueueValues = expected
         /\ writes = <<0>>
         /\ destination[1] =
               KthSmallest(expected, NearestRank(rank, 2 * h))
         /\ destination[1] = rank_value

C17_Witness ==
    /\ pc = "loop"
    /\ step_kind = "none"
    /\ half_length = 2
    /\ source = <<2, 0, 1, 2>>
    /\ QueueValues = <<1, 0, 2, 0, 1>>
    /\ rank = 1
    /\ destination[1] = 0

\* C18: the value inserted by the k-th reflective step (k = 1..h) is
\* source[N-1-k], also when N = h + 1 and the window still holds entries
\* reflected about the first index.
C18_TailReflection ==
    (Stepped /\ step_kind = "reflect") =>
      /\ 1 <= reflect_steps
      /\ reflect_steps <= half_length
      /\ Len(source) - 1 - reflect_steps >= 0
      /\ next_value = source[(Len(source) - 1 - reflect_steps) + 1]
      /\ next_pair = <<next_value, values_seen>>
      /\ window_iters[Len(window_iters)] = next_pair

C18_Witness ==
    /\ Stepped
    /\ step_kind = "reflect"
    /\ half_length = 3
    /\ source = <<0, 1, 2, 0>>
    /\ reflect_steps = 2
    /\ next_value = 1
    /\ \E i \in 1..Len(window_iters) : window_iters[i][2] < half_length

\* C19: a valid call performs N - h - 1 source steps, then h reflective
\* steps, none of the former after one of the latter, and returns; the
\* reflection counter starts at 2h, is 2h minus twice the number of
\* reflective steps taken, stays within 0..2h and is 0 at the return.
C19_Termination ==
    /\ [](Started =>
            /\ window_reflect_pos = 2 * half_length - 2 * reflect_steps
            /\ 0 <= window_reflect_pos
            /\ window_reflect_pos <= 2 * half_length
            /\ source_steps <= Len(source) - half_length - 1
            /\ reflect_steps <= half_length
            /\ src_not_empty = (source_steps < Len(source) - half_length - 1)
            /\ reflect_steps > 0 =>
                  source_steps = Len(source) - half_length - 1
            /\ step_kind = "source" => reflect_steps = 0
            /\ Len(writes) = 1 + source_steps + reflect_steps
            /\ pc = "done" =>
                  /\ source_steps = Len(source) - half_length - 1
                  /\ reflect_steps = half_length
                  /\ window_reflect_pos = 0)
    /\ [][ (pc = "loop" /\ pc' = "loop") =>
             \/ /\ source_steps' = source_steps + 1
                /\ window_reflect_pos' = window_reflect_pos
             \/ /\ reflect_steps' = reflect_steps + 1
                /\ source_steps' = source_steps
                /\ window_reflect_pos' = window_reflect_pos - 2 ]_vars
    /\ <>(pc = "done")

C19_Witness ==
    /\ pc = "done"
    /\ Len(source) = MaxN
    /\ half_length = 1
    /\ source_steps = MaxN - 2
    /\ reflect_steps = 1
    /\ window_reflect_pos = 0
    /\ step_kind = "reflect"

\* C20: the sample a step erases had the smallest sequence index of the
\* window; so when its value equals the cursor's value it is the cursor's
\* sample or is ordered before it by the window's comparison, and in cases
\* (b) and (d) a departing sample that is not the cursor is ordered before
\* the cursor.
C20_DepartingIsOldest ==
    Stepped =>
      /\ \A q \in sorted_window : prev_iter[2] < q[2]
      /\ cursor_before # prev_iter => prev_iter[2] < cursor_before[2]
      /\ prev_value = prev_iter[1]
      /\ rank_before = cursor_before[1]
      /\ prev_value = rank_before =>
            \/ prev_iter = cursor_before
            \/ Less(prev_iter, cursor_before)
      /\ prev_value = rank_before => step_case \in {"b", "b_cursor", "d", "d_cursor"}
      /\ step_case \in {"b", "d"} =>
            /\ prev_iter # cursor_before
            /\ Less(prev_iter, cursor_before)
            /\ ~Less(cursor_before, prev_iter)
      /\ step_case \in {"b_cursor", "d_cursor"} => prev_iter = cursor_before

C20_Witness ==
    /\ Stepped
    /\ step_case = "d"
    /\ half_length = 1
    /\ prev_value = rank_before
    /\ prev_iter # cursor_before
    /\ Less(prev_iter, cursor_before)

====
